---- MODULE Spec2Model ----
(***************************************************************************)
(* A model of test-console: the completion trie (trie.cpp), the line       *)
(* editor / input session (console.cpp, getUserInputLine and replaceLine)  *)
(* and the console loop (console.cpp, start).                              *)
(*                                                                         *)
(* Characters are byte values; strings are sequences of byte values        *)
(* (1-based in the model, 0-based in the source).  Pointers to trie nodes  *)
(* are indices into an arena of nodes, 0 being nullptr.                    *)
(***************************************************************************)
EXTENDS Integers, Sequences, FiniteSets, TLC

VARIABLES
  nodes,        \* the heap of TrieNode objects, in allocation order
  trie_root_,   \* CommandTrie::trie_root_ (0 = nullptr)
  vocab,        \* ghost: the set of words passed to a completed insert
  trie_status,  \* "ok", or what an out-of-bounds child access did to the heap
  ins,          \* the insert call of the last step, if it made one
  q,            \* the find call of the last step, if it made one, and its result
  pc,           \* where the process is
  history_,     \* TestConsole::history_
  line,         \* getUserInputLine: line
  cursor_pos,   \* getUserInputLine: cursor_pos
  history_pos,  \* getUserInputLine: history_pos
  current_line, \* getUserInputLine: current_line (the draft)
  tab_pressed,  \* getUserInputLine: tab_pressed
  emitted,      \* the bytes written to std::cout by the last step
  row,          \* terminal: the cells of the row the cursor is on
  col,          \* terminal: the column of the cursor (0-based)
  nkeys,        \* ghost: the number of key events delivered so far
  input,        \* start: input, the line getUserInputLine returned last
  ret_val       \* main: ret_val

vars == <<nodes, trie_root_, vocab, trie_status, ins, q, pc, history_, line,
          cursor_pos, history_pos, current_line, tab_pressed,
          emitted, row, col, nkeys, input, ret_val>>

trieVars == <<nodes, trie_root_, vocab, trie_status>>

sessionVars == <<pc, history_, line, cursor_pos, history_pos, current_line,
                 tab_pressed, emitted, row, col, nkeys, input, ret_val>>

----------------------------------------------------------------------------
(* Bounds of the exploration *)

\* longest word over the small alphabet in the pool of insertable words
MaxWordLen == 2

\* largest number of distinct words of the small family inserted into one trie
MaxVocab == 2

\* longest query string over the small query alphabet
MaxQueryLen == 2

\* largest number of key events delivered to the console in one run
MaxKeys == 6

\* longest history the console has when the browsing of it is explored
MaxLog == 2

\* largest number of key events getKeyPresses returns in one vector when
\* vectors of several events are explored
MaxBatch == 3

----------------------------------------------------------------------------
(* Bytes *)

BEL == 7
BS == 8
LF == 10
CR == 13
SPACE == 32

\* the sentinel buildIndex stores for a byte outside the accepted set
INVALID_INDEX == 255

\* one past the last byte buildIndex gives an entry to
INDEX_END == 127

\* "0123456789ABCDEFGHIJKLMNOPQRSTUVWXYZabcdefghijklmnopqrstuvwxyz-_"
VALID_COMM_CHARS == (48..57) \cup (65..90) \cup (97..122) \cup {45, 95}

\* the bytes the platform classifies as KeyPressed::alphanum
Printable == 32..126

NULL == 0

----------------------------------------------------------------------------
(* CommandTrie::buildIndex *)

\* as buildIndexStep, but idx is not incremented after it was given to an
\* accepted character
buildIndexStep_noIncrement(c, st) ==
  IF c \in VALID_COMM_CHARS
    THEN [index_ |-> Append(st.index_, st.trie_node_size_),
          index_to_char_ |-> Append(st.index_to_char_, c),
          trie_node_size_ |-> st.trie_node_size_]
    ELSE [st EXCEPT !.index_ = Append(st.index_, INVALID_INDEX)]

\* one turn of the loop, for the byte c; st holds idx (as trie_node_size_,
\* which the source assigns from it at the end) and the two vectors as the
\* turns before have left them
buildIndexStep(c, st) ==
  IF c \in VALID_COMM_CHARS
    THEN [index_ |-> Append(st.index_, st.trie_node_size_),
          index_to_char_ |-> Append(st.index_to_char_, c),
          trie_node_size_ |-> st.trie_node_size_ + 1]
    ELSE [st EXCEPT !.index_ = Append(st.index_, INVALID_INDEX)]

\* the turns of the loop for the bytes lo..(hi - 1), in order: those of the
\* upper half of the range follow those of the lower half
RECURSIVE buildIndexLoop(_, _, _)
buildIndexLoop(lo, hi, st) ==
  IF hi <= lo \/ st.trie_node_size_ < 0
    THEN st
    ELSE IF hi = lo + 1
           THEN buildIndexStep(lo, st)
           ELSE LET mid == (lo + hi) \div 2
                IN buildIndexLoop(mid, hi, buildIndexLoop(lo, mid, st))

\* index_, index_to_char_ and trie_node_size_ as buildIndex leaves them
buildIndex ==
  buildIndexLoop(32, INDEX_END, [index_ |-> [i \in 1..32 |-> INVALID_INDEX],
                                 index_to_char_ |-> <<>>,
                                 trie_node_size_ |-> 0])

\* index_to_char_[i]: the vector is 0-based in the source
index_to_char_(i) == buildIndex.index_to_char_[i + 1]

\* index_[c]: the vector is 0-based in the source
index_(c) == buildIndex.index_[c + 1]

trie_node_size_ == buildIndex.trie_node_size_

\* CommandTrie::index: the index of a byte, 255 for a byte index_ has no
\* entry for
index(c) == IF c >= Len(buildIndex.index_) THEN INVALID_INDEX ELSE index_(c)

----------------------------------------------------------------------------
(* TrieNode and the arena *)

createTrieNode ==
  [children |-> [i \in 0..(trie_node_size_ - 1) |-> NULL],
   is_terminal |-> FALSE,
   word_to_here |-> <<>>]

\* as insertLoop, but without the test for an existing child: a node is
\* created for every character of str
RECURSIVE insertLoop_alwaysNew(_, _, _, _, _)
insertLoop_alwaysNew(ns, curr_node, str, i, word_to_here) ==
  IF i > Len(str) \/ Len(ns) < 0 \/ curr_node < 0 \/ Len(word_to_here) < 0
    THEN [status |-> "ok",
          nodes |-> [ns EXCEPT ![curr_node].word_to_here = word_to_here,
                               ![curr_node].is_terminal = TRUE]]
    ELSE LET ns1 == [ns EXCEPT ![curr_node].word_to_here = word_to_here]
             idx == index_(str[i])
         IN IF idx >= trie_node_size_
              THEN [status |-> "oob", nodes |-> ns1]
              ELSE LET ns2 == Append([ns1 EXCEPT ![curr_node].children[idx] = Len(ns1) + 1],
                                     createTrieNode)
                   IN insertLoop_alwaysNew(ns2, ns2[curr_node].children[idx], str,
                                           i + 1, Append(word_to_here, str[i]))

\* as insertLoop, but word_to_here is stored in the node of the last
\* character only, not in the nodes the walk passes through
RECURSIVE insertLoop_lastWordOnly(_, _, _, _, _)
insertLoop_lastWordOnly(ns, curr_node, str, i, word_to_here) ==
  IF i > Len(str) \/ Len(ns) < 0 \/ curr_node < 0 \/ Len(word_to_here) < 0
    THEN [status |-> "ok",
          nodes |-> [ns EXCEPT ![curr_node].word_to_here = word_to_here,
                               ![curr_node].is_terminal = TRUE]]
    ELSE LET idx == index_(str[i])
         IN IF idx >= trie_node_size_
              THEN [status |-> "oob", nodes |-> ns]
              ELSE LET fresh == ns[curr_node].children[idx] = NULL
                       ns2 == IF fresh
                                THEN Append([ns EXCEPT ![curr_node].children[idx] = Len(ns) + 1],
                                            createTrieNode)
                                ELSE ns
                   IN insertLoop_lastWordOnly(ns2, ns2[curr_node].children[idx], str,
                                              i + 1, Append(word_to_here, str[i]))

\* the characters of str are walked while the child index is inside the
\* children array; an index outside it (the sentinel) stops the walk with
\* status "oob", the heap being as the loop left it.  (The tests on ns,
\* curr_node and word_to_here never hold: they have the arguments evaluated
\* before the turn of the loop starts.)
RECURSIVE insertLoop(_, _, _, _, _)
insertLoop(ns, curr_node, str, i, word_to_here) ==
  IF i > Len(str) \/ Len(ns) < 0 \/ curr_node < 0 \/ Len(word_to_here) < 0
    THEN [status |-> "ok",
          nodes |-> [ns EXCEPT ![curr_node].word_to_here = word_to_here,
                               ![curr_node].is_terminal = TRUE]]
    ELSE LET ns1 == [ns EXCEPT ![curr_node].word_to_here = word_to_here]
             idx == index_(str[i])
         IN IF idx >= trie_node_size_
              THEN [status |-> "oob", nodes |-> ns1]
              ELSE LET fresh == ns1[curr_node].children[idx] = NULL
                       ns2 == IF fresh
                                THEN Append([ns1 EXCEPT ![curr_node].children[idx] = Len(ns1) + 1],
                                            createTrieNode)
                                ELSE ns1
                   IN insertLoop(ns2, ns2[curr_node].children[idx], str, i + 1,
                                 Append(word_to_here, str[i]))

\* as insert, but the node of the last character is not marked as terminal:
\* it keeps the flag it had before the call
insert_lastNodeUnmarked(ns, root, str) ==
  LET ns0 == IF root = NULL THEN Append(ns, createTrieNode) ELSE ns
      root0 == IF root = NULL THEN Len(ns0) ELSE root
      r == insertLoop(ns0, root0, str, 1, <<>>)
  IN IF r.status = "ok"
       THEN LET walk[i \in 0..Len(str)] ==
                  IF i = 0
                    THEN root0
                    ELSE r.nodes[walk[i - 1]].children[index_(str[i])]
                last == walk[Len(str)]
                was == IF last <= Len(ns0) THEN ns0[last].is_terminal ELSE FALSE
            IN {[status |-> "ok",
                 nodes |-> [r.nodes EXCEPT ![last].is_terminal = was],
                 root |-> root0]}
       ELSE {[status |-> "corrupt", nodes |-> r.nodes, root |-> root0],
             [status |-> "segv", nodes |-> r.nodes, root |-> root0]}

\* CommandTrie::insert: the set of outcomes.  A child index outside the
\* array is undefined behaviour: the slot beyond the array reads as nullptr
\* and the new node's address is stored over foreign memory ("corrupt"), or
\* it reads as a wild pointer that is then dereferenced ("segv").
insert(ns, root, str) ==
  LET ns0 == IF root = NULL THEN Append(ns, createTrieNode) ELSE ns
      root0 == IF root = NULL THEN Len(ns0) ELSE root
      r == insertLoop(ns0, root0, str, 1, <<>>)
  IN IF r.status = "ok"
       THEN {[status |-> "ok", nodes |-> r.nodes, root |-> root0]}
       ELSE {[status |-> "corrupt", nodes |-> r.nodes, root |-> root0],
             [status |-> "segv", nodes |-> r.nodes, root |-> root0]}

----------------------------------------------------------------------------
(* CommandTrie::find and its helpers *)

\* as getLiveChildren, but the scan stops at the first live child
getLiveChildren_firstOnly(ns, node) ==
  LET live == {i \in 0..(trie_node_size_ - 1) : ns[node].children[i] # NULL}
  IN IF live = {} THEN <<>> ELSE <<CHOOSE i \in live : \A j \in live : i <= j>>

\* the scan of the child slots lo..(hi - 1), in order: the live ones of the
\* upper half of the range follow those of the lower half
RECURSIVE getLiveChildrenLoop(_, _, _, _)
getLiveChildrenLoop(ns, node, lo, hi) ==
  IF hi <= lo
    THEN <<>>
    ELSE IF hi = lo + 1
           THEN (IF ns[node].children[lo] # NULL THEN <<lo>> ELSE <<>>)
           ELSE LET mid == (lo + hi) \div 2
                IN getLiveChildrenLoop(ns, node, lo, mid)
                     \o getLiveChildrenLoop(ns, node, mid, hi)

getLiveChildren(ns, node) == getLiveChildrenLoop(ns, node, 0, trie_node_size_)

\* as getLongestString, but a terminal node with one live child is descended
\* through: is_terminal is looked at only where the descent cannot go on
RECURSIVE getLongestString_terminalLast(_, _)
getLongestString_terminalLast(ns, node) ==
  LET live_children == getLiveChildren(ns, node)
  IN IF node >= 0 /\ Len(live_children) = 1
       THEN getLongestString_terminalLast(ns, ns[node].children[live_children[1]])
       ELSE IF ns[node].is_terminal
              THEN [status |-> "ok", n_paths |-> 1,
                    longest_str |-> ns[node].word_to_here, last_node |-> node]
              ELSE IF Len(live_children) = 0
                     THEN [status |-> "throw", n_paths |-> 0,
                           longest_str |-> <<>>, last_node |-> node]
                     ELSE [status |-> "ok", n_paths |-> Len(live_children),
                           longest_str |-> ns[node].word_to_here,
                           last_node |-> node]

RECURSIVE getLongestString(_, _)
getLongestString(ns, node) ==
  IF node >= 0 /\ ns[node].is_terminal
    THEN [status |-> "ok", n_paths |-> 1,
          longest_str |-> ns[node].word_to_here, last_node |-> node]
    ELSE LET live_children == getLiveChildren(ns, node)
         IN IF Len(live_children) = 0
              THEN [status |-> "throw", n_paths |-> 0,
                    longest_str |-> <<>>, last_node |-> node]
              ELSE IF Len(live_children) = 1
                     THEN getLongestString(ns, ns[node].children[live_children[1]])
                     ELSE [status |-> "ok", n_paths |-> Len(live_children),
                           longest_str |-> ns[node].word_to_here,
                           last_node |-> node]

RECURSIVE getPossibleCommands(_, _)
RECURSIVE getPossibleCommandsLoop(_, _, _, _, _)

\* as getPossibleCommands, but a node's own word is pushed after the words
\* below it
getPossibleCommands_postOrder(ns, node) ==
  LET live_children == getLiveChildren(ns, node)
  IN getPossibleCommandsLoop(ns, node, live_children, 1, Len(live_children))
       \o (IF ns[node].is_terminal THEN <<ns[node].word_to_here>> ELSE <<>>)

\* the loop over live_children[lo..hi], in order: what the children of the
\* upper half of the range push follows what those of the lower half push
getPossibleCommandsLoop(ns, node, live_children, lo, hi) ==
  IF hi < lo
    THEN <<>>
    ELSE IF hi = lo
           THEN getPossibleCommands(ns, ns[node].children[live_children[lo]])
           ELSE LET mid == (lo + hi) \div 2
                IN getPossibleCommandsLoop(ns, node, live_children, lo, mid)
                     \o getPossibleCommandsLoop(ns, node, live_children, mid + 1, hi)

getPossibleCommands(ns, node) ==
  LET live_children == getLiveChildren(ns, node)
  IN (IF ns[node].is_terminal THEN <<ns[node].word_to_here>> ELSE <<>>)
       \o getPossibleCommandsLoop(ns, node, live_children, 1, Len(live_children))

blank_tuple ==
  [status |-> "ok", n_paths |-> 0, completion |-> <<>>, all_cmds |-> <<>>]

\* the process dies inside find (a wild pointer was dereferenced)
segv_tuple ==
  [status |-> "segv", n_paths |-> 0, completion |-> <<>>, all_cmds |-> <<>>]

\* find leaves through the std::runtime_error of getLongestString
throw_tuple ==
  [status |-> "throw", n_paths |-> 0, completion |-> <<>>, all_cmds |-> <<>>]

\* the loop of find over the characters of str
RECURSIVE findWalk(_, _, _, _)
findWalk(ns, curr_node, str, i) ==
  IF i > Len(str) \/ curr_node < 0
    THEN [kind |-> "node", node |-> curr_node]
    ELSE LET idx == index_(str[i])
         IN IF idx >= trie_node_size_
              THEN [kind |-> "oob", node |-> curr_node]
              ELSE IF ns[curr_node].children[idx] = NULL
                     THEN [kind |-> "null", node |-> curr_node]
                     ELSE findWalk(ns, ns[curr_node].children[idx], str, i + 1)

\* CommandTrie::find: the set of outcomes.  Reading children[255] is
\* undefined behaviour: the slot beyond the array reads as nullptr (the
\* blank tuple is returned) or as a wild pointer that is then dereferenced.
find(ns, root, str, ret_pos) ==
  IF root = NULL
    THEN {blank_tuple}
    ELSE LET w == findWalk(ns, root, str, 1)
         IN IF w.kind = "null"
              THEN {blank_tuple}
              ELSE IF w.kind = "oob"
                     THEN {blank_tuple, segv_tuple}
                     ELSE LET g == getLongestString(ns, w.node)
                          IN IF g.status = "throw"
                               THEN {throw_tuple}
                               ELSE {[status |-> "ok",
                                      n_paths |-> g.n_paths,
                                      completion |-> g.longest_str,
                                      all_cmds |-> IF ret_pos
                                                     THEN getPossibleCommands(ns, g.last_node)
                                                     ELSE <<>>]}

----------------------------------------------------------------------------
(* Strings of the program and of the examples *)

STR_apple == <<97, 112, 112, 108, 101>>
STR_append == <<97, 112, 112, 101, 110, 100>>
STR_apply == <<97, 112, 112, 108, 121>>
STR_quit == <<113, 117, 105, 116>>
STR_quick == <<113, 117, 105, 99, 107>>
STR_app == <<97, 112, 112>>
STR_qui == <<113, 117, 105>>

IsPrefix(p, w) == Len(p) <= Len(w) /\ SubSeq(w, 1, Len(p)) = p

PrefixesOf(W) == UNION {{SubSeq(w, 1, k) : k \in 0..Len(w)} : w \in W}

SeqsUpTo(S, n) == UNION {[1..k -> S] : k \in 0..n}

----------------------------------------------------------------------------
(* The trie on its own: words are inserted and prefixes are queried *)

\* 'a' and 'b'
SmallAlphabet == {97, 98}

\* the families of words a vocabulary is drawn from: every word over the
\* small alphabet together with one word holding a byte outside the accepted
\* set, and the vocabularies of the two worked examples
FamilySmall == SeqsUpTo(SmallAlphabet, MaxWordLen) \cup {<<97, SPACE>>}
FamilyQuit == {STR_quit, STR_quick}
FamilyApple == {STR_apple, STR_append, STR_apply}

Families == {FamilySmall, FamilyQuit, FamilyApple}

WordPool == UNION Families

\* the strings find is asked about: every prefix of a word of the pool, every
\* short string over 'a', 'b' and the space, and the prefixes of the example
\* words followed by a 'z' or by a space
QueryPool ==
  PrefixesOf(WordPool)
    \cup SeqsUpTo(SmallAlphabet \cup {SPACE}, MaxQueryLen)
    \cup {Append(p, c) : p \in PrefixesOf(FamilyQuit \cup FamilyApple), c \in {122, SPACE}}

\* the strings asked about on a trie holding the words of V: those that
\* share their first character with a word of the family of V, and the
\* short strings over 'a', 'b' and the space
QueriesFor(V) ==
  {s \in QueryPool :
     \/ s \in SeqsUpTo(SmallAlphabet \cup {SPACE}, MaxQueryLen)
     \/ \E F \in Families : V \subseteq F /\ s \in PrefixesOf(F)
     \/ \E F \in Families : V \subseteq F /\ SubSeq(s, 1, Len(s) - 1) \in PrefixesOf(F)}

\* known: the word was in the vocabulary when insert was called
no_insert == [called |-> FALSE, str |-> <<>>, known |-> FALSE]

no_query ==
  [called |-> FALSE, str |-> <<>>, ret_pos |-> FALSE, result |-> blank_tuple]

\* the locals of getUserInputLine as it declares them, and a blank terminal
InitSessionVars ==
  /\ history_ = <<>>
  /\ line = <<>>
  /\ cursor_pos = 0
  /\ history_pos = 0
  /\ current_line = <<>>
  /\ tab_pressed = FALSE
  /\ emitted = <<>>
  /\ row = <<>>
  /\ col = 0
  /\ nkeys = 0
  /\ input = <<>>
  /\ ret_val = 1

\* CommandTrie::CommandTrie: no root, no node
InitTrie ==
  /\ nodes = <<>>
  /\ trie_root_ = NULL
  /\ vocab = {}
  /\ trie_status = "ok"
  /\ ins = no_insert
  /\ q = no_query
  /\ pc = "construct"
  /\ InitSessionVars

\* completion_trie_.insert(w)
InsertWord(w) ==
  /\ pc = "construct"
  /\ trie_status = "ok"
  /\ \E F \in Families : w \in F /\ vocab \subseteq F
  /\ w \in vocab \/ w \notin FamilySmall \/ Cardinality(vocab) < MaxVocab
  /\ \E r \in insert(nodes, trie_root_, w) :
       /\ nodes' = r.nodes
       /\ trie_root_' = r.root
       /\ trie_status' = r.status
       /\ vocab' = IF r.status = "ok" THEN vocab \cup {w} ELSE vocab
       /\ pc' = IF r.status = "segv" THEN "crashed" ELSE pc
  /\ ins' = [called |-> TRUE, str |-> w, known |-> w \in vocab]
  /\ q' = no_query
  /\ UNCHANGED <<history_, line, cursor_pos, history_pos, current_line,
                 tab_pressed, emitted, row, col, nkeys, input, ret_val>>

\* completion_trie_.find(str, ret_pos); q keeps the call and its result until
\* the next insert, and one call at a time is observed
FindCall(str, ret_pos) ==
  /\ pc = "construct"
  /\ trie_status = "ok"
  /\ ~q.called
  /\ str \in QueriesFor(vocab)
  /\ \E r \in find(nodes, trie_root_, str, ret_pos) :
       /\ q' = [called |-> TRUE, str |-> str, ret_pos |-> ret_pos, result |-> r]
       /\ pc' = IF r.status = "segv" THEN "crashed" ELSE pc
  /\ ins' = no_insert
  /\ UNCHANGED <<nodes, trie_root_, vocab, trie_status>>
  /\ UNCHANGED <<history_, line, cursor_pos, history_pos, current_line,
                 tab_pressed, emitted, row, col, nkeys, input, ret_val>>

NextTrie ==
  \/ \E w \in WordPool : InsertWord(w)
  \/ \E str \in QueryPool, ret_pos \in BOOLEAN : FindCall(str, ret_pos)

SpecTrie == InitTrie /\ [][NextTrie]_vars

----------------------------------------------------------------------------
(* The console: its strings *)

\* "test-console ->", the prompt main constructs the console with
prompt_ ==
  <<116, 101, 115, 116, 45, 99, 111, 110, 115, 111, 108, 101, 32, 45, 62>>

STR_hello == <<104, 101, 108, 108, 111>>
STR_help == <<104, 101, 108, 112>>
STR_sugar == <<115, 117, 103, 97, 114>>
STR_send == <<115, 101, 110, 100>>
STR_snooze == <<115, 110, 111, 111, 122, 101>>
STR_point == <<112, 111, 105, 110, 116>>
STR_change == <<99, 104, 97, 110, 103, 101>>
STR_challenge == <<99, 104, 97, 108, 108, 101, 110, 103, 101>>
STR_ping == <<112, 105, 110, 103>>
STR_ring == <<114, 105, 110, 103>>
STR_xray == <<120, 114, 97, 121>>
STR_history == <<104, 105, 115, 116, 111, 114, 121>>

\* commands_: the command names and the text each one prints
commands_ ==
  (STR_hello :> <<72, 101, 108, 108, 111, 33, 32, 72, 111, 119, 32, 97, 114,
                  101, 32, 121, 111, 117, 63>>)
  @@ (STR_help :> <<83, 111, 114, 114, 121, 46, 32, 73, 32, 99, 97, 110, 39,
                    116, 32, 104, 101, 108, 112, 32, 121, 111, 117, 33>>)
  @@ (STR_apple :> <<66, 97, 110, 97, 110, 97, 33>>)
  @@ (STR_append :> <<68, 105, 100, 32, 121, 111, 117, 32, 109, 101, 97, 110,
                      32, 117, 112, 101, 110, 100, 63, 13, 10, 32, 92, 47, 13,
                      10, 45, 91, 93, 45, 13, 10, 32, 40, 41>>)
  @@ (STR_quit :> <<84, 104, 97, 110, 107, 115, 32, 102, 111, 114, 32, 100,
                    114, 111, 112, 112, 105, 110, 103, 32, 98, 121, 33>>)
  @@ (STR_quick :> <<73, 39, 109, 32, 103, 111, 105, 110, 103, 32, 97, 115,
                     32, 102, 97, 115, 116, 32, 97, 115, 32, 73, 32, 99, 97,
                     110, 33>>)
  @@ (STR_sugar :> <<72, 105, 44, 32, 104, 111, 110, 101, 121, 33>>)
  @@ (STR_send :> <<82, 101, 99, 101, 105, 118, 101, 100, 33>>)
  @@ (STR_snooze :> <<90, 122, 122, 122, 122, 122, 122, 122, 122, 122, 122,
                      122, 46, 46, 46>>)
  @@ (STR_point :> <<73, 116, 39, 115, 32, 114, 117, 100, 101, 32, 116, 111,
                     32, 112, 111, 105, 110, 116, 33>>)
  @@ (STR_change :> <<67, 104, 97, 110, 103, 101, 32, 105, 115, 32, 103, 111,
                      111, 100, 32, 45, 32, 119, 104, 97, 116, 32, 119, 111,
                      117, 108, 100, 32, 121, 111, 117, 32, 108, 105, 107,
                      101, 32, 116, 111, 32, 99, 104, 97, 110, 103, 101, 63>>)
  @@ (STR_challenge :> <<67, 114, 101, 97, 116, 101, 100, 32, 105, 110, 32,
                         49, 57, 57, 48, 44, 32, 119, 104, 97, 116, 32, 119,
                         97, 115, 32, 116, 104, 101, 32, 110, 97, 109, 101,
                         32, 111, 102, 32, 116, 104, 101, 32, 102, 105, 114,
                         115, 116, 32, 105, 110, 116, 101, 114, 110, 101,
                         116, 32, 115, 101, 97, 114, 99, 104, 32, 101, 110,
                         103, 105, 110, 101, 63>>)
  @@ (STR_ping :> <<80, 111, 110, 103>>)
  @@ (STR_ring :> <<87, 104, 111, 32, 121, 97, 32, 103, 111, 110, 110, 97,
                    32, 99, 97, 108, 108, 63>>)
  @@ (STR_xray :> <<89, 111, 117, 32, 115, 97, 119, 32, 114, 105, 103, 104,
                    116, 32, 116, 104, 114, 111, 117, 103, 104, 32, 109, 101,
                    33>>)

\* the keys of commands_ in the order std::map iterates them
commandsInOrder ==
  <<STR_append, STR_apple, STR_challenge, STR_change, STR_hello, STR_help,
    STR_ping, STR_point, STR_quick, STR_quit, STR_ring, STR_send, STR_snooze,
    STR_sugar, STR_xray>>

CRLF == <<CR, LF>>

\* "No commands match '"
MSG_NoMatchHead ==
  <<78, 111, 32, 99, 111, 109, 109, 97, 110, 100, 115, 32, 109, 97, 116, 99,
    104, 32, 39>>

\* "' for tab completion\r\n"
MSG_NoMatchTail ==
  <<39, 32, 102, 111, 114, 32, 116, 97, 98, 32, 99, 111, 109, 112, 108, 101,
    116, 105, 111, 110, 13, 10>>

\* "Command '"
MSG_NotFoundHead == <<67, 111, 109, 109, 97, 110, 100, 32, 39>>

\* "' not found.\r\n"
MSG_NotFoundTail ==
  <<39, 32, 110, 111, 116, 32, 102, 111, 117, 110, 100, 46, 13, 10>>

\* "Next char: \x1b, value: 27\r\n", what handleConsoleKeyEvent writes for a
\* lone escape byte
ESC == 27
MSG_NextCharEsc ==
  <<78, 101, 120, 116, 32, 99, 104, 97, 114, 58, 32, ESC, 44, 32, 118, 97,
    108, 117, 101, 58, 32, 50, 55, 13, 10>>

\* "There was an error getting the user's input: "
MSG_InputError ==
  <<84, 104, 101, 114, 101, 32, 119, 97, 115, 32, 97, 110, 32, 101, 114, 114,
    111, 114, 32, 103, 101, 116, 116, 105, 110, 103, 32, 116, 104, 101, 32,
    117, 115, 101, 114, 39, 115, 32, 105, 110, 112, 117, 116, 58, 32>>

\* "There was an error when processing key inputs"
WHAT_KeyError ==
  <<84, 104, 101, 114, 101, 32, 119, 97, 115, 32, 97, 110, 32, 101, 114, 114,
    111, 114, 32, 119, 104, 101, 110, 32, 112, 114, 111, 99, 101, 115, 115,
    105, 110, 103, 32, 107, 101, 121, 32, 105, 110, 112, 117, 116, 115>>

\* "The triw is incorrectly formatted - node should be terminal"
WHAT_TrieError ==
  <<84, 104, 101, 32, 116, 114, 105, 119, 32, 105, 115, 32, 105, 110, 99,
    111, 114, 114, 101, 99, 116, 108, 121, 32, 102, 111, 114, 109, 97, 116,
    116, 101, 100, 32, 45, 32, 110, 111, 100, 101, 32, 115, 104, 111, 117,
    108, 100, 32, 98, 101, 32, 116, 101, 114, 109, 105, 110, 97, 108>>

----------------------------------------------------------------------------
(* std::string and size_type arithmetic *)

\* size_type arithmetic wraps modulo 2^64; the model's integers are narrower,
\* so the same arithmetic is carried out modulo 2^16, which wraps a
\* difference of small sizes in the same way
SizeModulus == 65536

\* a - b in size_type
USub(a, b) == (a - b) % SizeModulus

\* as ToInt, but the difference stays the unsigned value it was computed as
ToInt_keepsUnsigned(u) == u

\* the conversion of a size_type value to int
ToInt(u) == IF u >= SizeModulus \div 2 THEN u - SizeModulus ELSE u

\* std::string(n, ch)
Repeat(n, ch) == [i \in 1..n |-> ch]

\* str.substr(pos)
substr(str, pos) == SubSeq(str, pos + 1, Len(str))

\* str.insert(pos, 1, c)
insertChar(str, pos, c) ==
  SubSeq(str, 1, pos) \o <<c>> \o SubSeq(str, pos + 1, Len(str))

\* str.erase(pos, 1)
erase(str, pos) == SubSeq(str, 1, pos) \o SubSeq(str, pos + 2, Len(str))

RECURSIVE Concat(_)
Concat(strs) ==
  IF strs = <<>> THEN <<>> ELSE Head(strs) \o Concat(Tail(strs))

----------------------------------------------------------------------------
(* The terminal: a row of cells and a cursor column *)

\* what one byte does: a printable byte writes the cell under the cursor and
\* advances one column, a backspace moves back one column, a carriage return
\* goes to column 0, a line feed goes to a fresh row, a bell moves nothing
TermByte(t, b) ==
  IF b = BS
    THEN [t EXCEPT !.col = IF t.col > 0 THEN t.col - 1 ELSE 0]
    ELSE IF b = CR
           THEN [t EXCEPT !.col = 0]
           ELSE IF b = LF
                  THEN [t EXCEPT !.row = <<>>]
                  ELSE IF b \in Printable
                         THEN LET padded == IF Len(t.row) > t.col
                                              THEN t.row
                                              ELSE t.row \o Repeat(t.col + 1 - Len(t.row), SPACE)
                              IN [row |-> [padded EXCEPT ![t.col + 1] = b],
                                  col |-> t.col + 1]
                         ELSE t

\* the bytes lo..hi of the output, one after the other: those of the upper
\* half of the range after those of the lower half
RECURSIVE TermApplyFrom(_, _, _, _)
TermApplyFrom(t, bytes, lo, hi) ==
  IF hi > lo /\ t.col >= 0
    THEN TermApplyFrom(TermApplyFrom(t, bytes, lo, (lo + hi) \div 2),
                       bytes, (lo + hi) \div 2 + 1, hi)
    ELSE IF hi = lo THEN TermByte(t, bytes[lo]) ELSE t

\* the index of the line feed of the last "\r\n" of the output, 0 when it
\* has none
LastNewLine(bytes) ==
  LET ends == {i \in 2..Len(bytes) : bytes[i - 1] = CR /\ bytes[i] = LF}
  IN IF ends = {} THEN 0 ELSE CHOOSE i \in ends : \A j \in ends : j <= i

\* the terminal after the output: a "\r\n" leaves the cursor at the start of
\* an empty row whatever came before it, so the bytes after the last one are
\* applied to that
TermApply(t, bytes) ==
  LET k == LastNewLine(bytes)
  IN IF k = 0
       THEN TermApplyFrom(t, bytes, 1, Len(bytes))
       ELSE TermApplyFrom([row |-> <<>>, col |-> 0], bytes, k + 1, Len(bytes))

\* the column the input text starts at: after the prompt and one space
InputStart == Len(prompt_) + 1

----------------------------------------------------------------------------
(* TestConsole::getUserInputLine: the cases of the switch, as functions of   *)
(* the locals; out is what the case writes to std::cout                     *)

Locals ==
  [line |-> line, cursor_pos |-> cursor_pos, history_pos |-> history_pos,
   current_line |-> current_line, tab_pressed |-> tab_pressed, out |-> <<>>]

\* as replaceLine, but the old line's tail is not blanked out
replaceLine_noPadding(old_line_size, new_line, cur_pos) ==
  Repeat(cur_pos, BS) \o new_line

\* TestConsole::replaceLine: the bytes it writes
replaceLine(old_line_size, new_line, cur_pos) ==
  LET diff == ToInt(USub(old_line_size, Len(new_line)))
      spaces == IF diff > 0 THEN Repeat(diff, SPACE) ELSE <<>>
      back_spaces == IF diff > 0 THEN Repeat(diff, BS) ELSE <<>>
  IN Repeat(cur_pos, BS) \o new_line \o spaces \o back_spaces

\* as alphanumCase, but the character is always added at the end of the line
alphanumCase_alwaysAppends(s, c) ==
  [s EXCEPT !.line = Append(s.line, c),
            !.cursor_pos = s.cursor_pos + 1,
            !.out = <<c>>]

\* case KeyPressed::alphanum
alphanumCase(s, c) ==
  IF s.cursor_pos # Len(s.line)
    THEN LET new_line == insertChar(s.line, s.cursor_pos, c)
         IN [s EXCEPT !.line = new_line,
                      !.cursor_pos = s.cursor_pos + 1,
                      !.out = <<c>> \o substr(s.line, s.cursor_pos)
                                \o Repeat(USub(Len(new_line), s.cursor_pos + 1), BS)]
    ELSE [s EXCEPT !.line = Append(s.line, c),
                   !.cursor_pos = s.cursor_pos + 1,
                   !.out = <<c>>]

\* as backspaceCase, but inside the line the character under the cursor is
\* the one removed
backspaceCase_removesAtCursor(s) ==
  IF s.line # <<>> /\ s.cursor_pos # 0
    THEN IF s.cursor_pos # Len(s.line)
           THEN LET new_line == erase(s.line, s.cursor_pos)
                IN [s EXCEPT !.line = new_line,
                             !.cursor_pos = s.cursor_pos - 1,
                             !.out = <<BS>> \o substr(s.line, s.cursor_pos) \o <<SPACE>>
                                       \o Repeat(USub(Len(new_line), USub(s.cursor_pos, 2)), BS)]
           ELSE [s EXCEPT !.line = SubSeq(s.line, 1, Len(s.line) - 1),
                          !.cursor_pos = s.cursor_pos - 1,
                          !.out = <<BS, SPACE, BS>>]
    ELSE [s EXCEPT !.out = <<BEL>>]

\* case KeyPressed::backspace
backspaceCase(s) ==
  IF s.line # <<>> /\ s.cursor_pos # 0
    THEN IF s.cursor_pos # Len(s.line)
           THEN LET new_line == erase(s.line, s.cursor_pos - 1)
                IN [s EXCEPT !.line = new_line,
                             !.cursor_pos = s.cursor_pos - 1,
                             !.out = <<BS>> \o substr(s.line, s.cursor_pos) \o <<SPACE>>
                                       \o Repeat(USub(Len(new_line), USub(s.cursor_pos, 2)), BS)]
           ELSE [s EXCEPT !.line = SubSeq(s.line, 1, Len(s.line) - 1),
                          !.cursor_pos = s.cursor_pos - 1,
                          !.out = <<BS, SPACE, BS>>]
    ELSE [s EXCEPT !.out = <<BEL>>]

\* as leftarrowCase, but without the test that the cursor is not at the start
leftarrowCase_noGuard(s) ==
  [s EXCEPT !.cursor_pos = s.cursor_pos - 1, !.out = <<BS>>]

\* case KeyPressed::leftarrow
leftarrowCase(s) ==
  IF s.cursor_pos > 0
    THEN [s EXCEPT !.cursor_pos = s.cursor_pos - 1, !.out = <<BS>>]
    ELSE [s EXCEPT !.out = <<BEL>>]

\* case KeyPressed::rightarrow
rightarrowCase(s) ==
  IF s.cursor_pos # Len(s.line)
    THEN [s EXCEPT !.cursor_pos = s.cursor_pos + 1,
                   !.out = <<s.line[s.cursor_pos + 1]>>]
    ELSE [s EXCEPT !.out = <<BEL>>]

\* as uparrowCase, but the line is saved as the draft by every up arrow,
\* also while the history is being browsed
uparrowCase_alwaysSaves(s, history) ==
  LET saved == [s EXCEPT !.current_line = s.line]
  IN IF saved.history_pos # 0
       THEN LET new_line == history[saved.history_pos]
            IN [saved EXCEPT !.history_pos = saved.history_pos - 1,
                             !.line = new_line,
                             !.cursor_pos = Len(new_line),
                             !.out = replaceLine(Len(s.line), new_line, s.cursor_pos)]
       ELSE [saved EXCEPT !.out = <<BEL>>]

\* case KeyPressed::uparrow
uparrowCase(s, history) ==
  LET saved == IF s.history_pos = Len(history)
                 THEN [s EXCEPT !.current_line = s.line]
                 ELSE s
  IN IF saved.history_pos # 0
       THEN LET new_line == history[saved.history_pos]
            IN [saved EXCEPT !.history_pos = saved.history_pos - 1,
                             !.line = new_line,
                             !.cursor_pos = Len(new_line),
                             !.out = replaceLine(Len(s.line), new_line, s.cursor_pos)]
       ELSE [saved EXCEPT !.out = <<BEL>>]

\* as downarrowCase, but without the test for the end of the history; what
\* is read past the end of the history is taken as an empty line
downarrowCase_noEndTest(s, history) ==
  LET new_line == IF s.history_pos + 1 = Len(history)
                    THEN s.current_line
                    ELSE IF s.history_pos + 1 < Len(history)
                           THEN history[s.history_pos + 2]
                           ELSE <<>>
  IN [s EXCEPT !.history_pos = s.history_pos + 1,
               !.line = new_line,
               !.cursor_pos = Len(new_line),
               !.out = replaceLine(Len(s.line), new_line, s.cursor_pos)]

\* as downarrowCase, but the new line is read at the position before the
\* increment
downarrowCase_staleIndex(s, history) ==
  IF s.history_pos # Len(history)
    THEN LET new_line == history[s.history_pos + 1]
         IN [s EXCEPT !.history_pos = s.history_pos + 1,
                      !.line = new_line,
                      !.cursor_pos = Len(new_line),
                      !.out = replaceLine(Len(s.line), new_line, s.cursor_pos)]
    ELSE [s EXCEPT !.out = <<BEL>>]

\* case KeyPressed::downarrow
downarrowCase(s, history) ==
  IF s.history_pos # Len(history)
    THEN LET new_line == IF s.history_pos + 1 = Len(history)
                           THEN s.current_line
                           ELSE history[s.history_pos + 2]
         IN [s EXCEPT !.history_pos = s.history_pos + 1,
                      !.line = new_line,
                      !.cursor_pos = Len(new_line),
                      !.out = replaceLine(Len(s.line), new_line, s.cursor_pos)]
    ELSE [s EXCEPT !.out = <<BEL>>]

\* as delCase, but nothing is written when the cursor is at the end
delCase_silentAtEnd(s) ==
  IF s.cursor_pos # Len(s.line)
    THEN LET new_line == erase(s.line, s.cursor_pos)
         IN [s EXCEPT !.line = new_line,
                      !.out = substr(new_line, s.cursor_pos) \o <<SPACE>>
                                \o Repeat(USub(Len(new_line), USub(s.cursor_pos, 1)), BS)]
    ELSE s

\* case KeyPressed::del
delCase(s) ==
  IF s.cursor_pos # Len(s.line)
    THEN LET new_line == erase(s.line, s.cursor_pos)
         IN [s EXCEPT !.line = new_line,
                      !.out = substr(new_line, s.cursor_pos) \o <<SPACE>>
                                \o Repeat(USub(Len(new_line), USub(s.cursor_pos, 1)), BS)]
    ELSE [s EXCEPT !.out = <<BEL>>]

\* the lines of the completion list, each followed by "\r\n"
RECURSIVE printCommands(_)
printCommands(all_cmds) ==
  IF all_cmds = <<>>
    THEN <<>>
    ELSE Head(all_cmds) \o CRLF \o printCommands(Tail(all_cmds))

\* as tabCase, but the completion is added to the end of the line instead
\* of taking its place
tabCase_appendsCompletion(s, r) ==
  IF s.tab_pressed
    THEN [s EXCEPT !.tab_pressed = FALSE,
                   !.out = CRLF
                           \o (IF r.all_cmds = <<>>
                                 THEN MSG_NoMatchHead \o s.line \o MSG_NoMatchTail
                                 ELSE printCommands(r.all_cmds))
                           \o prompt_ \o <<SPACE>> \o s.line]
    ELSE IF r.n_paths > 0 /\ r.completion # s.line
           THEN [s EXCEPT !.line = s.line \o r.completion,
                          !.cursor_pos = Len(s.line \o r.completion),
                          !.out = replaceLine(Len(s.line), s.line \o r.completion,
                                              s.cursor_pos)]
           ELSE [s EXCEPT !.tab_pressed = TRUE, !.out = <<BEL>>]

\* case KeyPressed::tab, r being what find(line, tab_pressed) returned
tabCase(s, r) ==
  IF s.tab_pressed
    THEN [s EXCEPT !.tab_pressed = FALSE,
                   !.out = CRLF
                           \o (IF r.all_cmds = <<>>
                                 THEN MSG_NoMatchHead \o s.line \o MSG_NoMatchTail
                                 ELSE printCommands(r.all_cmds))
                           \o prompt_ \o <<SPACE>> \o s.line]
    ELSE IF r.n_paths > 0 /\ r.completion # s.line
           THEN [s EXCEPT !.line = r.completion,
                          !.cursor_pos = Len(r.completion),
                          !.out = replaceLine(Len(s.line), r.completion, s.cursor_pos)]
           ELSE [s EXCEPT !.tab_pressed = TRUE, !.out = <<BEL>>]

----------------------------------------------------------------------------
(* TestConsole::start: what one turn of its loop does with a finished line *)

\* the response start prints for the line
response(inp, history) ==
  IF inp = STR_history
    THEN printCommands(history)
    ELSE IF inp \in DOMAIN commands_
           THEN commands_[inp] \o CRLF
           ELSE IF inp # <<>>
                  THEN MSG_NotFoundHead \o inp \o MSG_NotFoundTail
                  ELSE <<>>

\* as record, but without the comparison with the most recent entry
record_alsoRepeated(inp, history) ==
  IF inp # <<>> THEN Append(history, inp) ELSE history

\* history_ after the line has been considered for recording
record(inp, history) ==
  IF inp # <<>> /\ (history = <<>> \/ inp # history[Len(history)])
    THEN Append(history, inp)
    ELSE history

----------------------------------------------------------------------------
(* The console: construction, the loop of start and the key events *)

\* the printable characters the user types: 'a', a prefix of two commands,
\* and the space, which is outside the accepted set
TypedChars == {97, SPACE}

\* the trie the constructor builds: every key of commands_, then "history"
RECURSIVE constructTrie(_, _, _)
constructTrie(ns, root, words) ==
  IF words = <<>>
    THEN [nodes |-> ns, root |-> root]
    ELSE LET r == CHOOSE r \in insert(ns, root, Head(words)) : TRUE
         IN IF r.status = "ok"
              THEN constructTrie(r.nodes, r.root, Tail(words))
              ELSE [nodes |-> r.nodes, root |-> r.root]

completion_trie_ == constructTrie(<<>>, NULL, Append(commandsInOrder, STR_history))

\* the state TestConsole::TestConsole leaves
Init ==
  /\ nodes = completion_trie_.nodes
  /\ trie_root_ = completion_trie_.root
  /\ vocab = DOMAIN commands_ \cup {STR_history}
  /\ trie_status = "ok"
  /\ ins = no_insert
  /\ q = no_query
  /\ pc = "constructed"
  /\ InitSessionVars

\* as FreshLine, but history_pos is the size the history had before the line
\* just completed was recorded
FreshLine_staleHistoryPos ==
  /\ line' = <<>>
  /\ cursor_pos' = 0
  /\ history_pos' = Len(history_)
  /\ current_line' = <<>>
  /\ tab_pressed' = FALSE

\* the locals of a new call of getUserInputLine
FreshLine ==
  /\ line' = <<>>
  /\ cursor_pos' = 0
  /\ history_pos' = Len(history_')
  /\ current_line' = <<>>
  /\ tab_pressed' = FALSE

Emit(bytes) ==
  /\ emitted' = bytes
  /\ LET t == TermApply([row |-> row, col |-> col], bytes)
     IN row' = t.row /\ col' = t.col

\* getKeyPresses hands over one more key event
KeyDelivered ==
  /\ pc = "reading"
  /\ nkeys < MaxKeys
  /\ nkeys' = nkeys + 1

\* main calls start: the prompt is printed and the first line is awaited
StartConsole ==
  /\ pc = "constructed"
  /\ pc' = "reading"
  /\ history_' = history_
  /\ FreshLine
  /\ Emit(prompt_ \o <<SPACE>>)
  /\ UNCHANGED <<nodes, trie_root_, vocab, trie_status, ins, q, nkeys, input,
                 ret_val>>

\* as ApplyKey, but tab_pressed is not reset after a key that is not tab
ApplyKey_flagKept(key, s) ==
  /\ line' = s.line
  /\ cursor_pos' = s.cursor_pos
  /\ history_pos' = s.history_pos
  /\ current_line' = s.current_line
  /\ tab_pressed' = s.tab_pressed
  /\ Emit(s.out)
  /\ UNCHANGED <<nodes, trie_root_, vocab, trie_status, ins, pc, history_, input,
                 ret_val>>

\* as ApplyKey, but while the history is browsed the line is written back
\* into the entry it was recalled from
ApplyKey_writesBack(key, s) ==
  /\ line' = s.line
  /\ cursor_pos' = s.cursor_pos
  /\ history_pos' = s.history_pos
  /\ current_line' = s.current_line
  /\ tab_pressed' = IF key # "tab" THEN FALSE ELSE s.tab_pressed
  /\ history_' = IF s.history_pos < Len(history_)
                   THEN [history_ EXCEPT ![s.history_pos + 1] = s.line]
                   ELSE history_
  /\ Emit(s.out)
  /\ UNCHANGED <<nodes, trie_root_, vocab, trie_status, ins, pc, input, ret_val>>

\* a key event whose case has turned the locals into s; tab_pressed is reset
\* after the switch unless the key was tab
ApplyKey(key, s) ==
  /\ line' = s.line
  /\ cursor_pos' = s.cursor_pos
  /\ history_pos' = s.history_pos
  /\ current_line' = s.current_line
  /\ tab_pressed' = IF key # "tab" THEN FALSE ELSE s.tab_pressed
  /\ Emit(s.out)
  /\ UNCHANGED <<nodes, trie_root_, vocab, trie_status, ins, pc, history_, input,
                 ret_val>>

KeyAlphanum(c) ==
  /\ KeyDelivered
  /\ ApplyKey("alphanum", alphanumCase(Locals, c))
  /\ q' = no_query

KeyBackspace ==
  /\ KeyDelivered
  /\ ApplyKey("backspace", backspaceCase(Locals))
  /\ q' = no_query

KeyLeftArrow ==
  /\ KeyDelivered
  /\ ApplyKey("leftarrow", leftarrowCase(Locals))
  /\ q' = no_query

KeyRightArrow ==
  /\ KeyDelivered
  /\ ApplyKey("rightarrow", rightarrowCase(Locals))
  /\ q' = no_query

KeyUpArrow ==
  /\ KeyDelivered
  /\ ApplyKey("uparrow", uparrowCase(Locals, history_))
  /\ q' = no_query

KeyDownArrow ==
  /\ KeyDelivered
  /\ ApplyKey("downarrow", downarrowCase(Locals, history_))
  /\ q' = no_query

KeyDel ==
  /\ KeyDelivered
  /\ ApplyKey("del", delCase(Locals))
  /\ q' = no_query

\* as Thrown, but the exception is caught inside the loop of start, which
\* goes on reading the line
Thrown_caughtInLoop(what) ==
  /\ Emit(MSG_InputError \o what \o CRLF)
  /\ UNCHANGED <<nodes, trie_root_, vocab, trie_status, ins, pc, history_, line,
                 cursor_pos, history_pos, current_line, tab_pressed, input,
                 ret_val>>

\* an exception leaves getUserInputLine: start catches it, prints it and
\* returns 0 to main
Thrown(what) ==
  /\ pc' = "done"
  /\ ret_val' = 0
  /\ Emit(MSG_InputError \o what \o CRLF)
  /\ UNCHANGED <<nodes, trie_root_, vocab, trie_status, ins, history_, line,
                 cursor_pos, history_pos, current_line, tab_pressed, input>>

KeyTab ==
  /\ KeyDelivered
  /\ \E r \in find(nodes, trie_root_, line, tab_pressed) :
       /\ q' = [called |-> TRUE, str |-> line, ret_pos |-> tab_pressed, result |-> r]
       /\ IF r.status = "segv"
            THEN /\ pc' = "crashed"
                 /\ emitted' = <<>>
                 /\ UNCHANGED <<nodes, trie_root_, vocab, trie_status, ins, history_,
                                line, cursor_pos, history_pos, current_line,
                                tab_pressed, row, col, input, ret_val>>
            ELSE IF r.status = "throw"
                   THEN Thrown(WHAT_TrieError)
                   ELSE ApplyKey("tab", tabCase(Locals, r))

\* a key getKeyPresses does not know, here a lone escape: handleConsoleKeyEvent
\* writes the bytes it read, and no case of the switch applies
KeyUndefined ==
  /\ KeyDelivered
  /\ ApplyKey("undefined", [Locals EXCEPT !.out = MSG_NextCharEsc])
  /\ q' = no_query

KeyError ==
  /\ KeyDelivered
  /\ Thrown(WHAT_KeyError)
  /\ q' = no_query

\* as KeyEnter, but getUserInputLine returns the part of line before the
\* cursor
KeyEnter_upToCursor ==
  LET returned == SubSeq(line, 1, cursor_pos)
  IN /\ KeyDelivered
     /\ input' = returned
     /\ history_' = record(returned, history_)
     /\ IF returned # STR_quit
          THEN /\ pc' = "reading"
               /\ FreshLine
               /\ Emit(CRLF \o response(returned, history_) \o prompt_ \o <<SPACE>>)
               /\ UNCHANGED ret_val
          ELSE /\ pc' = "done"
               /\ ret_val' = 0
               /\ Emit(CRLF \o response(returned, history_))
               /\ UNCHANGED <<line, cursor_pos, history_pos, current_line, tab_pressed>>
     /\ q' = no_query
     /\ UNCHANGED <<nodes, trie_root_, vocab, trie_status, ins>>

\* as KeyEnter, but the loop of start ends on the empty line as well
KeyEnter_emptyLineEnds ==
  /\ KeyDelivered
  /\ input' = line
  /\ history_' = record(line, history_)
  /\ IF line # STR_quit /\ line # <<>>
       THEN /\ pc' = "reading"
            /\ FreshLine
            /\ Emit(CRLF \o response(line, history_) \o prompt_ \o <<SPACE>>)
            /\ UNCHANGED ret_val
       ELSE /\ pc' = "done"
            /\ ret_val' = 0
            /\ Emit(CRLF \o response(line, history_))
            /\ UNCHANGED <<line, cursor_pos, history_pos, current_line, tab_pressed>>
  /\ q' = no_query
  /\ UNCHANGED <<nodes, trie_root_, vocab, trie_status, ins>>

\* the enter key: getUserInputLine returns line; start prints the response,
\* records the line and, unless it is "quit", prompts for the next line
KeyEnter ==
  /\ KeyDelivered
  /\ input' = line
  /\ history_' = record(line, history_)
  /\ IF line # STR_quit
       THEN /\ pc' = "reading"
            /\ FreshLine
            /\ Emit(CRLF \o response(line, history_) \o prompt_ \o <<SPACE>>)
            /\ UNCHANGED ret_val
       ELSE /\ pc' = "done"
            /\ ret_val' = 0
            /\ Emit(CRLF \o response(line, history_))
            /\ UNCHANGED <<line, cursor_pos, history_pos, current_line, tab_pressed>>
  /\ q' = no_query
  /\ UNCHANGED <<nodes, trie_root_, vocab, trie_status, ins>>

Next ==
  \/ StartConsole
  \/ \E c \in TypedChars : KeyAlphanum(c)
  \/ KeyBackspace
  \/ KeyLeftArrow
  \/ KeyRightArrow
  \/ KeyUpArrow
  \/ KeyDownArrow
  \/ KeyDel
  \/ KeyTab
  \/ KeyUndefined
  \/ KeyError
  \/ KeyEnter

Spec == Init /\ [][Next]_vars

\* weak fairness of the enter key, WF_vars(KeyEnter), with the guard of
\* KeyEnter in the place of ENABLED <<KeyEnter>>_vars: as long as the console
\* waits for a key, the enter key is not withheld for ever
EnterFairness ==
  []<>(~(pc = "reading" /\ nkeys < MaxKeys)) \/ []<><<KeyEnter>>_vars

SpecEnter == Spec /\ EnterFairness

----------------------------------------------------------------------------
(* The console with lines already entered: browsing and editing one line *)

\* the lines the history holds when the exploration starts: "a" and " "
BrowseLines == {<<97>>, <<SPACE>>}

\* the histories start can have built from such lines: no empty entry, no
\* two adjacent equal entries
BrowseLogs ==
  {h \in SeqsUpTo(BrowseLines, MaxLog) :
     \A i \in 1..(Len(h) - 1) : h[i] # h[i + 1]}

\* start has recorded the lines of a history of BrowseLogs, the last of them
\* just now, has printed the prompt again and has called getUserInputLine
InitBrowse ==
  /\ nodes = completion_trie_.nodes
  /\ trie_root_ = completion_trie_.root
  /\ vocab = DOMAIN commands_ \cup {STR_history}
  /\ trie_status = "ok"
  /\ ins = no_insert
  /\ q = no_query
  /\ pc = "reading"
  /\ history_ \in BrowseLogs
  /\ line = <<>>
  /\ cursor_pos = 0
  /\ history_pos = Len(history_)
  /\ current_line = <<>>
  /\ tab_pressed = FALSE
  /\ input = IF history_ = <<>> THEN <<>> ELSE history_[Len(history_)]
  /\ emitted = IF history_ = <<>>
                 THEN prompt_ \o <<SPACE>>
                 ELSE CRLF \o response(input, history_) \o prompt_ \o <<SPACE>>
  /\ row = prompt_ \o <<SPACE>>
  /\ col = InputStart
  /\ nkeys = 0
  /\ ret_val = 1

\* the keys that browse the history and edit the line, and enter
NextBrowse ==
  \/ KeyUpArrow
  \/ KeyDownArrow
  \/ \E c \in TypedChars : KeyAlphanum(c)
  \/ KeyBackspace
  \/ KeyEnter

SpecBrowse == InitBrowse /\ [][NextBrowse]_vars

----------------------------------------------------------------------------
(* Editing one line: the printable keys 'a', 'b' and 'c', and the keys that *)
(* move the cursor and remove characters                                    *)

\* the characters typed while editing: 'a', 'b', 'c'
EditChars == {97, 98, 99}

\* the keys that edit the line and move the cursor in it, and a key that
\* getKeyPresses does not know
NextEdit ==
  \/ StartConsole
  \/ \E c \in EditChars : KeyAlphanum(c)
  \/ KeyBackspace
  \/ KeyDel
  \/ KeyLeftArrow
  \/ KeyRightArrow
  \/ KeyUndefined

SpecEdit == Init /\ [][NextEdit]_vars

----------------------------------------------------------------------------
(* Whole lines: the characters of "quit" and "history" that, with the tab  *)
(* key, complete to the two commands, and enter                            *)

\* 'q', 't', 'h', 'i': "q" and tab give "qui", "hi" and tab give "history"
CommandChars == {113, 116, 104, 105}

NextCommand ==
  \/ StartConsole
  \/ \E c \in CommandChars : KeyAlphanum(c)
  \/ KeyTab
  \/ KeyEnter

SpecCommand == Init /\ [][NextCommand]_vars

----------------------------------------------------------------------------
(* Vectors of several key events: one turn of the while loop of            *)
(* getUserInputLine takes the whole vector getKeyPresses returned          *)

\* the events a vector is made of: the printable keys 'a' and 'b', and enter
BatchEvents ==
  {[key |-> "alphanum", c |-> 97], [key |-> "alphanum", c |-> 98],
   [key |-> "enter", c |-> 0]}

\* the vectors getKeyPresses may return: never empty
Batches == SeqsUpTo(BatchEvents, MaxBatch) \ {<<>>}

\* the switch on key_pressed, for the events of BatchEvents but enter
batchCase(s, k) == alphanumCase(s, k.c)

\* as batchLoop, but enter does not end the for loop: the events behind it
\* are applied as well
RECURSIVE batchLoop_noBreak(_, _, _, _, _)
batchLoop_noBreak(keys, i, s, out, entered) ==
  IF i > Len(keys)
    THEN [s |-> s, out |-> out, entered |-> entered]
    ELSE IF keys[i].key = "enter"
           THEN batchLoop_noBreak(keys, i + 1, s, out \o CRLF, TRUE)
           ELSE LET t == batchCase(s, keys[i])
                IN batchLoop_noBreak(keys, i + 1,
                                     [t EXCEPT !.tab_pressed = FALSE, !.out = <<>>],
                                     out \o t.out, entered)

\* the for loop over the vector, from its event i on: s are the locals, out
\* is what has been written so far; enter writes "\r\n" and leaves the loop,
\* any other event is handled by its case and clears tab_pressed
RECURSIVE batchLoop(_, _, _, _, _)
batchLoop(keys, i, s, out, entered) ==
  IF i > Len(keys)
    THEN [s |-> s, out |-> out, entered |-> entered]
    ELSE IF keys[i].key = "enter"
           THEN [s |-> s, out |-> out \o CRLF, entered |-> TRUE]
           ELSE LET t == batchCase(s, keys[i])
                IN batchLoop(keys, i + 1,
                             [t EXCEPT !.tab_pressed = FALSE, !.out = <<>>],
                             out \o t.out, entered)

\* one turn of the while loop of getUserInputLine on the vector keys; when
\* enter was among its events getUserInputLine returns and start prints the
\* response, records the line and, unless it is "quit", prompts again
KeyBatch(keys) ==
  /\ pc = "reading"
  /\ nkeys + Len(keys) <= MaxKeys
  /\ nkeys' = nkeys + Len(keys)
  /\ LET r == batchLoop(keys, 1, Locals, <<>>, FALSE)
     IN IF r.entered
          THEN /\ input' = r.s.line
               /\ history_' = record(r.s.line, history_)
               /\ IF r.s.line # STR_quit
                    THEN /\ pc' = "reading"
                         /\ FreshLine
                         /\ Emit(r.out \o response(r.s.line, history_)
                                   \o prompt_ \o <<SPACE>>)
                         /\ UNCHANGED ret_val
                    ELSE /\ pc' = "done"
                         /\ ret_val' = 0
                         /\ Emit(r.out \o response(r.s.line, history_))
                         /\ UNCHANGED <<line, cursor_pos, history_pos,
                                        current_line, tab_pressed>>
          ELSE /\ line' = r.s.line
               /\ cursor_pos' = r.s.cursor_pos
               /\ history_pos' = r.s.history_pos
               /\ current_line' = r.s.current_line
               /\ tab_pressed' = r.s.tab_pressed
               /\ Emit(r.out)
               /\ UNCHANGED <<pc, history_, input, ret_val>>
  /\ q' = no_query
  /\ UNCHANGED <<nodes, trie_root_, vocab, trie_status, ins>>

NextBatch ==
  \/ StartConsole
  \/ \E keys \in Batches : KeyBatch(keys)

SpecBatch == Init /\ [][NextBatch]_vars

----------------------------------------------------------------------------
(* The trie as a tree: what the claims about find are stated over *)

\* the indices of the populated child slots of node n
LiveSet(n) == {i \in 0..(trie_node_size_ - 1) : nodes[n].children[i] # NULL}

\* the node the characters of str lead to from the root, NULL when an edge
\* is missing or a character has no edge at all; str is the text of the
\* node it leads to
RECURSIVE Reach(_)
Reach(str) ==
  IF str = <<>>
    THEN trie_root_
    ELSE LET parent == Reach(SubSeq(str, 1, Len(str) - 1))
             c == str[Len(str)]
         IN IF parent = NULL \/ c \notin VALID_COMM_CHARS
              THEN NULL
              ELSE nodes[parent].children[index_(c)]

\* a prefix is present in the trie when its characters lead to a node
PrefixPresent(str) == Reach(str) # NULL

\* the first node at or below n that is terminal or does not have exactly
\* one live child
RECURSIVE StopNode(_)
StopNode(n) ==
  IF nodes[n].is_terminal \/ Cardinality(LiveSet(n)) # 1
    THEN n
    ELSE StopNode(nodes[n].children[CHOOSE i \in LiveSet(n) : TRUE])

\* u comes before v in depth-first pre-order with siblings in index order
PreOrderBefore(u, v) ==
  \/ u # v /\ IsPrefix(u, v)
  \/ \E k \in 1..Len(u) :
       /\ k <= Len(v)
       /\ SubSeq(u, 1, k - 1) = SubSeq(v, 1, k - 1)
       /\ index_(u[k]) < index_(v[k])

\* a find call on a sound trie has returned for a prefix that is present
FindReturnedOnPrefix ==
  /\ q.called
  /\ trie_status = "ok"
  /\ PrefixPresent(q.str)

----------------------------------------------------------------------------
(* Claims about find *)

\* C7: for a prefix present in the trie, find descends from the prefix node
\* through non-terminal nodes with exactly one live child and stops at the
\* first node that is terminal or has more than one live child; at a terminal
\* node it returns count 1 and the node's text, otherwise the number of live
\* children and the node's text.  With {quit, quick}, find("quit") returns
\* (1, "quit") and find("qui") returns the extension "qui".
C7_FindStopsAtFirstTerminalOrFork ==
  /\ FindReturnedOnPrefix =>
       LET n == StopNode(Reach(q.str))
       IN /\ q.result.status = "ok"
          /\ Reach(q.result.completion) = n
          /\ q.result.n_paths =
               IF nodes[n].is_terminal THEN 1 ELSE Cardinality(LiveSet(n))
  /\ (q.called /\ vocab = FamilyQuit /\ q.str = STR_quit) =>
       /\ q.result.n_paths = 1
       /\ q.result.completion = STR_quit
  /\ (q.called /\ vocab = FamilyQuit /\ q.str = STR_qui) =>
       /\ q.result.n_paths = 2
       /\ q.result.completion = STR_qui

\* C7 witness: find has descended from the prefix node to a terminal node
\* that has children of its own
C7_Witness ==
  /\ FindReturnedOnPrefix
  /\ StopNode(Reach(q.str)) # Reach(q.str)
  /\ nodes[StopNode(Reach(q.str))].is_terminal
  /\ LiveSet(StopNode(Reach(q.str))) # {}
  /\ q.result.n_paths = 1

C9_ListIsWordsUnderPrefixInPreOrder ==
  (FindReturnedOnPrefix /\ q.ret_pos) =>
    LET cmds == q.result.all_cmds
    IN /\ q.result.status = "ok"
       /\ {cmds[i] : i \in 1..Len(cmds)} = {w \in vocab : IsPrefix(q.str, w)}
       /\ \A i, j \in 1..Len(cmds) : i < j => PreOrderBefore(cmds[i], cmds[j])

\* C9 witness: find("app", true) has listed the three words of the example
C9_Witness ==
  /\ q.called
  /\ q.ret_pos
  /\ vocab = FamilyApple
  /\ q.str = STR_app
  /\ q.result.all_cmds = <<STR_append, STR_apple, STR_apply>>

\* C10: for a string of printable characters that is not a prefix of any
\* vocabulary word, find returns the no-match result: count 0, empty
\* extension, empty list.
C10_NonPrefixGivesBlank ==
  (/\ q.called
   /\ \A i \in 1..Len(q.str) : q.str[i] \in Printable
   /\ ~ \E w \in vocab : IsPrefix(q.str, w)) =>
    q.result = blank_tuple

----------------------------------------------------------------------------
(* The input line on the terminal: what the claims about the display are     *)
(* stated over                                                              *)

\* the cells of the row from the column where the input text starts
Displayed == SubSeq(row, InputStart + 1, Len(row))

\* the displayed text is the line, followed by blanks only
ShowsLine ==
  /\ Len(Displayed) >= Len(line)
  /\ SubSeq(Displayed, 1, Len(line)) = line
  /\ \A i \in (Len(line) + 1)..Len(Displayed) : Displayed[i] = SPACE

\* the visual column, relative to the start of the input text
VisualColumn == col - InputStart

\* the display shows the line and the visual cursor is on the logical one
InSync == ShowsLine /\ VisualColumn = cursor_pos

\* a key event that is not tab and does not finish the line
NonTabKey ==
  \/ \E c \in TypedChars : KeyAlphanum(c)
  \/ KeyBackspace
  \/ KeyDel
  \/ KeyLeftArrow
  \/ KeyRightArrow
  \/ KeyUpArrow
  \/ KeyDownArrow
  \/ KeyUndefined

\* an editing key event, or a tab that completes the line through replaceLine
EditStep ==
  \/ \E c \in TypedChars : KeyAlphanum(c)
  \/ KeyBackspace
  \/ KeyDel
  \/ KeyLeftArrow
  \/ KeyRightArrow
  \/ KeyUpArrow
  \/ KeyDownArrow
  \/ KeyTab /\ line' # line

\* the last step was a tab with the flag clear that neither completed the
\* line nor listed: it gave the alert and left the line alone
UnresolvedTab ==
  /\ q.called
  /\ ~q.ret_pos
  /\ q.str = line
  /\ emitted = <<BEL>>

\* what a second tab writes for the list cmds of completions of ln
ListOutput(cmds, ln) ==
  CRLF \o (IF cmds = <<>>
             THEN MSG_NoMatchHead \o ln \o MSG_NoMatchTail
             ELSE printCommands(cmds))
       \o prompt_ \o <<SPACE>> \o ln

----------------------------------------------------------------------------
(* Claims about getUserInputLine *)

\* C1: after every processed key event of any sequence of key events,
\* 0 <= cursor_pos <= length(line).
C1_CursorWithinLine ==
  /\ 0 <= cursor_pos
  /\ cursor_pos <= Len(line)

\* C1 witness: key events have left the cursor inside a line of two or more
\* characters
C1_Witness ==
  /\ pc = "reading"
  /\ 0 < cursor_pos
  /\ cursor_pos < Len(line)

\* C2: from a state where the displayed text is the line and the visual
\* column is cursor_pos, each of printable insert, backspace, delete, left,
\* right and replaceLine (history up and down, tab completion) emits bytes
\* after which the displayed text, trailing blanks ignored, is the new line
\* and the visual column is the new cursor_pos.
C2_EditsKeepDisplayInSync ==
  [][(InSync /\ EditStep) => InSync']_vars

\* C2 witness: replaceLine has replaced "aa", the cursor inside it, by the
\* shorter history line "a", blanking the cell left over
C2_Witness ==
  /\ pc = "reading"
  /\ InSync
  /\ line = <<97>>
  /\ cursor_pos = 1
  /\ emitted = <<BS, 97, SPACE, BS>>
  /\ Displayed = <<97, SPACE>>

\* C3 as stated: after every key event within one input line, a second
\* consecutive tab included, the visual cursor column relative to the start
\* of the redrawn input text equals cursor_pos.
C3_VisualColumnIsCursorPos ==
  pc = "reading" => VisualColumn = cursor_pos

\* C4 as stated: on a tab event with the flag clear, if the query for the
\* line yields at least one candidate and an extension different from the
\* line, the line becomes the extension, cursor_pos its length and the flag
\* stays clear; otherwise line and cursor_pos are unchanged, one alert is
\* emitted and the flag becomes set.
C4_FirstTabCompletesOrArms ==
  [][(KeyTab /\ ~tab_pressed) =>
       LET r == q'.result
       IN IF r.n_paths > 0 /\ r.completion # line
            THEN /\ line' = r.completion
                 /\ cursor_pos' = Len(r.completion)
                 /\ ~tab_pressed'
            ELSE /\ line' = line
                 /\ cursor_pos' = cursor_pos
                 /\ emitted' = <<BEL>>
                 /\ tab_pressed']_vars

\* C5 as stated: on a tab event with the flag set, the session prints every
\* completion of the line, or the no-matches message when there is none,
\* leaves line and cursor_pos unchanged and clears the flag.
C5_SecondTabListsAndClears ==
  [][(KeyTab /\ tab_pressed) =>
       LET cmds == q'.result.all_cmds
       IN /\ {cmds[i] : i \in 1..Len(cmds)} = {w \in vocab : IsPrefix(line, w)}
          /\ emitted' = ListOutput(cmds, line)
          /\ line' = line
          /\ cursor_pos' = cursor_pos
          /\ ~tab_pressed']_vars

\* C6: every key event that is not tab leaves the flag clear, so the list is
\* printed on a tab event only if the key event before it, of the same input
\* line, was a tab that neither completed nor listed.
C6_OnlyTabArmsTheList ==
  [][/\ NonTabKey => ~tab_pressed'
     /\ (KeyTab /\ q'.result.status = "ok"
                /\ emitted' = ListOutput(q'.result.all_cmds, line))
          => UnresolvedTab]_vars

\* C6 witness: a second consecutive tab has printed a list of completions
C6_Witness ==
  /\ pc = "reading"
  /\ q.called
  /\ q.ret_pos
  /\ q.result.all_cmds # <<>>
  /\ emitted = ListOutput(q.result.all_cmds, line)
  /\ ~tab_pressed

----------------------------------------------------------------------------
(* Claims about insert *)

\* the word holds a character whose entry of index_ is the sentinel
HasInvalidCharacter(w) == \E i \in 1..Len(w) : index_(w[i]) = INVALID_INDEX

\* C11 as stated: insert(word) fails with an error reported to the caller
\* whenever word holds a character whose alphabet index is the sentinel 255,
\* and it neither creates nor follows a child edge for that character: the
\* call ends with the error, the heap is sound and the process goes on.
C11_InsertRejectsInvalidCharacter ==
  [][\A w \in WordPool :
       (InsertWord(w) /\ HasInvalidCharacter(w)) =>
         /\ trie_status' = "out_of_range"
         /\ pc' = "construct"
         /\ vocab' = vocab]_vars

\* C12: for every vocabulary and every valid word w of it, inserting w a
\* second time leaves the trie such that find(p, false) and find(p, true)
\* return for every string p what they returned before the second insert
\* (which they do at once where the second insert has left every node as it
\* was, find being a function of the nodes).
C12_SecondInsertKeepsAnswers ==
  [][(ins'.called /\ ins'.known /\ InsertWord(ins'.str)) =>
       /\ trie_status' = "ok"
       /\ vocab' = vocab
       /\ \/ nodes' = nodes /\ trie_root_' = trie_root_
          \/ \A p \in QueryPool, ret_pos \in BOOLEAN :
               find(nodes', trie_root_', p, ret_pos) = find(nodes, trie_root_, p, ret_pos)]_vars

\* C12 witness: a word of the vocabulary that is a proper prefix of another
\* word of it has been inserted a second time
C12_Witness ==
  /\ ins.called
  /\ ins.known
  /\ trie_status = "ok"
  /\ \E v \in vocab : v # ins.str /\ IsPrefix(ins.str, v)

----------------------------------------------------------------------------
(* Claims about the history *)

\* C13: after any sequence of completed input lines history_ holds no empty
\* string and no two adjacent equal entries, and it is the sequence of the
\* entered lines with the empty ones dropped and every run of equal lines
\* collapsed to one: it starts empty, only a completed line changes it, and
\* a completed line is appended unless it is empty or equal to the last
\* entry; the entries already there are never removed or reordered.
C13_HistoryIsCollapsedInput ==
  [][/\ \A i \in 1..Len(history_') : history_'[i] # <<>>
     /\ \A i \in 1..(Len(history_') - 1) : history_'[i] # history_'[i + 1]
     /\ IsPrefix(history_, history_')
     /\ history_' # history_ => KeyEnter
     /\ KeyEnter =>
          history_' = IF line = <<>> \/ (history_ # <<>> /\ line = history_[Len(history_)])
                        THEN history_
                        ELSE Append(history_, line)]_vars

\* C13 witness: the lines "a", " " and " " again have been entered, and the
\* history is ["a", " "]
C13_Witness ==
  /\ pc = "reading"
  /\ nkeys = 6
  /\ history_ = << <<97>>, <<SPACE>> >>
  /\ input = <<SPACE>>
  /\ line = <<>>
  /\ emitted = CRLF \o MSG_NotFoundHead \o <<SPACE>> \o MSG_NotFoundTail
                 \o prompt_ \o <<SPACE>>

\* history_[i] of the source, whose vector is 0-based
HistoryAt(i) == history_[i + 1]

\* the log ["a", " "] of the worked examples
LogAB == << <<97>>, <<SPACE>> >>

\* getUserInputLine has processed n key events of a line started fresh and
\* empty on the log ["a", " "]
AfterKeysOnLogAB(n) ==
  /\ pc = "reading"
  /\ history_ = LogAB
  /\ input = <<SPACE>>
  /\ nkeys = n

\* C14: an up arrow with history_pos > 0 decrements history_pos and sets line
\* to history_[history_pos], cursor_pos at its end; a down arrow with
\* history_pos < length increments history_pos and sets line to
\* history_[history_pos], or to the draft when the new position is the
\* length; with the log ["a", " "] and a fresh empty line, up, up, down show
\* " ", "a", " " in that order.
C14_ArrowsWalkTheHistory ==
  [][/\ (KeyUpArrow /\ history_pos > 0) =>
          /\ history_pos' = history_pos - 1
          /\ line' = HistoryAt(history_pos')
          /\ cursor_pos' = Len(line')
     /\ (KeyDownArrow /\ history_pos < Len(history_)) =>
          /\ history_pos' = history_pos + 1
          /\ line' = IF history_pos' = Len(history_)
                       THEN current_line
                       ELSE HistoryAt(history_pos')
          /\ cursor_pos' = Len(line')
     /\ (AfterKeysOnLogAB(0) /\ KeyUpArrow) =>
          line' = <<SPACE>> /\ ShowsLine'
     /\ (AfterKeysOnLogAB(1) /\ history_pos = 1 /\ KeyUpArrow) =>
          line' = <<97>> /\ ShowsLine'
     /\ (AfterKeysOnLogAB(2) /\ history_pos = 0 /\ KeyDownArrow) =>
          line' = <<SPACE>> /\ ShowsLine']_vars

\* C14 witness: up, up, down on the log ["a", " "]: the down arrow has
\* replaced "a" by " ", and the position is 1
C14_Witness ==
  /\ AfterKeysOnLogAB(3)
  /\ history_pos = 1
  /\ line = <<SPACE>>
  /\ cursor_pos = 1
  /\ current_line = <<>>
  /\ emitted = <<BS, SPACE>>

\* the history is being browsed
Browsing == history_pos < Len(history_)

\* C15: the draft is saved only by an up arrow pressed while not browsing
\* (history_pos = length), which saves the line d of that moment, and it is
\* not overwritten while history_pos < length; hence whatever up and down
\* arrows and edits follow, the down arrow that brings history_pos back to
\* length leaves line equal to d (k ups followed by k downs restore d).
C15_DraftRestoredOnReturn ==
  [][/\ (KeyUpArrow /\ ~Browsing) => current_line' = line
     /\ (current_line' # current_line) =>
          \/ KeyUpArrow /\ ~Browsing
          \/ KeyEnter /\ current_line' = <<>>
     /\ (Browsing /\ ~KeyEnter) => current_line' = current_line
     /\ (KeyDownArrow /\ Browsing /\ ~Browsing') =>
          line' = current_line /\ cursor_pos' = Len(current_line)]_vars

\* C15 witness: with the draft "aa" and the log ["a", " "], the down arrow
\* that ends the browsing has put "aa" back in place of " "
C15_Witness ==
  /\ pc = "reading"
  /\ history_ = LogAB
  /\ ~Browsing
  /\ line = <<97, 97>>
  /\ current_line = <<97, 97>>
  /\ cursor_pos = 2
  /\ emitted = <<BS, 97, 97>>

----------------------------------------------------------------------------
(* Claims about the end of getUserInputLine *)

\* the last step was an enter event: start has printed the "\r\n" of the
\* enter key, which apart from it only the list of a second tab begins with
EnterProcessed ==
  /\ ~q.called
  /\ Len(emitted) >= 2
  /\ SubSeq(emitted, 1, 2) = CRLF

\* a call of getUserInputLine is in progress, a key event other than enter
\* being the last one processed
CallInProgress == pc = "reading" /\ ~EnterProcessed

\* C16: getUserInputLine returns when and only when an enter event is
\* processed, and the returned string is the whole of line at that moment,
\* whatever the cursor position, the browse position and the double-tab
\* flag; if an enter event is eventually delivered, no error event before
\* it, the call terminates: a call in progress leads to the enter event
\* being processed, unless an exception or a crash ends it or the key
\* events of the run are used up.
C16_ReturnsWholeLineOnEnter ==
  /\ [][/\ KeyEnter => input' = line /\ EnterProcessed'
        /\ (input' # input \/ history_' # history_ \/ EnterProcessed') => KeyEnter]_vars
  /\ CallInProgress ~>
       (EnterProcessed \/ pc \in {"done", "crashed"} \/ nkeys = MaxKeys)

\* C16 witness: enter has returned the whole of "app", which a tab had
\* completed from "a", after one more key that left the line as it was (a
\* second tab that set the flag, or a left arrow that put the cursor inside)
C16_Witness ==
  /\ pc = "reading"
  /\ EnterProcessed
  /\ nkeys = 4
  /\ input = STR_app
  /\ history_ = <<STR_app>>
  /\ line = <<>>

\* what start prints when it catches the exception of an error key event
ErrorReport == MSG_InputError \o WHAT_KeyError \o CRLF

\* C17: when an error key event is processed getUserInputLine raises an
\* error to its caller instead of returning a line: start receives it (it
\* prints the report and ends), no line is returned, nothing is appended to
\* history_ for the aborted line, and no later event is applied.
C17_ErrorEventAbortsTheLine ==
  [][/\ KeyError =>
          /\ emitted' = ErrorReport
          /\ pc' = "done"
          /\ input' = input
          /\ history_' = history_
          /\ line' = line
     /\ pc # "done"]_vars

\* C17 witness: an error key event has aborted the line " ", which is not in
\* the history, and start has reported it
C17_Witness ==
  /\ pc = "done"
  /\ emitted = ErrorReport
  /\ line = <<SPACE>>
  /\ history_ = << <<97>> >>
  /\ input = <<97>>

\* start has ended after catching an exception of getUserInputLine: the last
\* thing printed is its report
EndedOnError ==
  /\ pc = "done"
  /\ IsPrefix(MSG_InputError, emitted)

\* C18 as stated: start returns 0 if the console terminated cleanly (the user
\* entered quit) and a non-zero value if there was an error while getting
\* the user's input.
C18_StartReturnsNonZeroOnError ==
  pc = "done" => IF EndedOnError THEN ret_val # 0 ELSE ret_val = 0

----------------------------------------------------------------------------
(* Claims about the boundaries of the line and of the history *)

\* the key event is one that cannot proceed
BlockedKey ==
  \/ KeyBackspace /\ (cursor_pos = 0 \/ line = <<>>)
  \/ KeyDel /\ cursor_pos = Len(line)
  \/ KeyLeftArrow /\ cursor_pos = 0
  \/ KeyRightArrow /\ cursor_pos = Len(line)
  \/ KeyUpArrow /\ history_pos = 0
  \/ KeyDownArrow /\ history_pos = Len(history_)

\* C19: each operation that cannot proceed (backspace with cursor_pos = 0 or
\* an empty line, delete and right with cursor_pos = length(line), left with
\* cursor_pos = 0, up with history_pos = 0, down with history_pos = length)
\* emits exactly one bell and nothing else, leaves line, cursor_pos and
\* history_pos unchanged and raises no error.
C19_BlockedKeyOnlyRingsTheBell ==
  [][BlockedKey =>
       /\ emitted' = <<BEL>>
       /\ line' = line
       /\ cursor_pos' = cursor_pos
       /\ history_pos' = history_pos
       /\ pc' = "reading"
       /\ ret_val' = ret_val]_vars

\* C19 witness: the oldest entry of the history is shown, the cursor at its
\* end, and a key that cannot proceed there (up, right or delete) has rung
\* the bell
C19_Witness ==
  /\ pc = "reading"
  /\ emitted = <<BEL>>
  /\ ~q.called
  /\ history_ # <<>>
  /\ history_pos = 0
  /\ line = history_[1]
  /\ cursor_pos = Len(line)
  /\ col = InputStart + cursor_pos

----------------------------------------------------------------------------
(* Claims about the start of an input line *)

\* the step starts an input line: start calls getUserInputLine for the first
\* time, or again after a line other than "quit"
LineStarts ==
  \/ StartConsole
  \/ KeyEnter /\ pc' = "reading"

\* C20: at the start of every input line, however the line before ended
\* (while browsing the history, with the double-tab flag set, with the cursor
\* inside the line), the session state is fresh: line is empty, cursor_pos
\* is 0, history_pos is the current length of the history, the draft is
\* empty and the double-tab flag is clear.
C20_EveryLineStartsFresh ==
  [][LineStarts =>
       /\ line' = <<>>
       /\ cursor_pos' = 0
       /\ history_pos' = Len(history_')
       /\ current_line' = <<>>
       /\ ~tab_pressed']_vars

\* C20 witness: a line starts after five key events, the last of them the
\* enter key on the line "a" (typed or recalled from the history, the keys
\* before the enter key leaving the cursor anywhere in it)
C20_Witness ==
  /\ pc = "reading"
  /\ EnterProcessed
  /\ nkeys = 5
  /\ history_ = << <<97>> >>
  /\ input = <<97>>
  /\ line = <<>>
  /\ cursor_pos = 0
  /\ history_pos = 1
  /\ current_line = <<>>
  /\ ~tab_pressed

----------------------------------------------------------------------------
(* Claims about editing the line *)

\* C21: a printable key event with character c at cursor position p changes
\* line to old[0..p) + c + old[p..) and cursor_pos to p + 1, for every p in
\* 0..length(line); in particular typing a, b, c into an empty buffer gives
\* line = "abc" and cursor_pos = 3.
C21_PrintableKeyInsertsAtCursor ==
  [][\A c \in EditChars :
       KeyAlphanum(c) =>
         /\ line' = SubSeq(line, 1, cursor_pos) \o <<c>>
                      \o SubSeq(line, cursor_pos + 1, Len(line))
         /\ cursor_pos' = cursor_pos + 1]_vars

\* C21 witness: three key events have made the line "abc" with the cursor at
\* its end, the last of them printing 'c' (three keys make three characters
\* only as three printable keys, each typed at the end of the line)
C21_Witness ==
  /\ pc = "reading"
  /\ nkeys = 3
  /\ line = <<97, 98, 99>>
  /\ cursor_pos = 3
  /\ emitted = <<99>>

\* line without the character at index i (counted from 0)
WithoutCharAt(str, i) == SubSeq(str, 1, i) \o SubSeq(str, i + 2, Len(str))

\* C22: with 0 < cursor_pos = p, backspace removes exactly the character at
\* index p-1 and sets cursor_pos to p-1; with p < length(line), delete
\* removes exactly the character at index p and leaves cursor_pos at p; so a
\* printable insert followed immediately by backspace restores the previous
\* line and cursor_pos, from any state.
C22_BackspaceAndDeleteRemoveOneCharacter ==
  [][/\ KeyBackspace /\ 0 < cursor_pos =>
          /\ line' = WithoutCharAt(line, cursor_pos - 1)
          /\ cursor_pos' = cursor_pos - 1
     /\ KeyDel /\ cursor_pos < Len(line) =>
          /\ line' = WithoutCharAt(line, cursor_pos)
          /\ cursor_pos' = cursor_pos
     /\ \A c \in EditChars :
          KeyAlphanum(c) =>
            LET undone == backspaceCase(Locals')
            IN /\ undone.line = line
               /\ undone.cursor_pos = cursor_pos]_vars

\* C22 witness: a backspace inside the line has left "ac" with the cursor
\* between the two characters: the character before the cursor is gone, "c"
\* and a blank are printed over the old tail and the cursor is moved back
C22_Witness ==
  /\ pc = "reading"
  /\ line = <<97, 99>>
  /\ cursor_pos = 1
  /\ emitted = <<BS, 99, SPACE, BS, BS>>

\* C23 as stated: an undefined key event is ignored: line, cursor_pos,
\* history_pos and the draft are unchanged, and nothing is written to the
\* terminal between the reading of the bytes of the key and the next key
\* event.
C23_UndefinedKeyIsIgnored ==
  [][KeyUndefined =>
       /\ line' = line
       /\ cursor_pos' = cursor_pos
       /\ history_pos' = history_pos
       /\ current_line' = current_line
       /\ emitted' = <<>>
       /\ row' = row
       /\ col' = col]_vars

----------------------------------------------------------------------------
(* Claims about the shape of the trie *)

\* C24: after any sequence of inserts of valid words, every trie node that
\* is not terminal has at least one live child, so no find call on any
\* prefix raises the structural-corruption error ("node should be
\* terminal").  (trie_status is "ok" as long as every word inserted was a
\* valid one; q holds the find call made last on the trie as it is, and
\* every prefix of the vocabulary is among the strings find is called with.)
C24_NonTerminalNodeHasLiveChild ==
  trie_status = "ok" =>
    /\ \A n \in 1..Len(nodes) : ~nodes[n].is_terminal => LiveSet(n) # {}
    /\ q.called => q.result.status # "throw"
    /\ PrefixesOf(vocab) \subseteq QueriesFor(vocab)

\* C24 witness: "ab" and "ba" are the vocabulary, so that the root and the
\* nodes of "a" and "b" are not terminal, and find has been asked about the
\* prefix "a" and has answered with "ab"
C24_Witness ==
  /\ trie_status = "ok"
  /\ vocab = {<<97, 98>>, <<98, 97>>}
  /\ Len(nodes) = 5
  /\ ~nodes[trie_root_].is_terminal
  /\ ~nodes[Reach(<<97>>)].is_terminal
  /\ ~nodes[Reach(<<98>>)].is_terminal
  /\ q.called
  /\ q.str = <<97>>
  /\ q.result.status = "ok"
  /\ q.result.completion = <<97, 98>>

\* C25: after any sequence of inserts of valid words, the word_to_here of
\* every trie node is the concatenation of the edge characters on the path
\* from the root to the node (empty for the root), also for the nodes that
\* were created inside a longer word.  Every node is the node of a prefix of
\* the vocabulary, and each such prefix leads to a node that holds it.
C25_WordToHereIsThePath ==
  trie_status = "ok" =>
    /\ \A p \in PrefixesOf(vocab) :
         /\ Reach(p) # NULL
         /\ nodes[Reach(p)].word_to_here = p
    /\ \A n \in 1..Len(nodes) : \E p \in PrefixesOf(vocab) : Reach(p) = n

\* C25 witness: "ab" is the only word, so that the node of "a" was created
\* inside it and is not terminal; it holds "a"
C25_Witness ==
  /\ trie_status = "ok"
  /\ vocab = {<<97, 98>>}
  /\ Len(nodes) = 3
  /\ ~nodes[Reach(<<97>>)].is_terminal
  /\ nodes[Reach(<<97>>)].word_to_here = <<97>>
  /\ nodes[Reach(<<97, 98>>)].word_to_here = <<97, 98>>
  /\ nodes[trie_root_].word_to_here = <<>>

----------------------------------------------------------------------------
(* Claims about the position in the history *)

\* an arrow key has replaced the line: it has read an entry of the history,
\* or (the down arrow, back at the end) the draft
ArrowReplacesLine == (KeyUpArrow \/ KeyDownArrow) /\ emitted' # <<BEL>>

\* C26: throughout every input line and for every sequence of key events,
\* 0 <= history_pos <= length(history_), and every read of
\* history_[history_pos] happens with history_pos < length(history_).
C26_HistoryPosWithinHistory ==
  /\ [](0 <= history_pos /\ history_pos <= Len(history_))
  /\ [][ArrowReplacesLine =>
          \/ /\ history_pos' < Len(history_)
             /\ line' = history_[history_pos' + 1]
          \/ /\ KeyDownArrow
             /\ history_pos' = Len(history_)
             /\ line' = current_line]_vars

\* C26 witness: the history holds two lines and the up arrow has been
\* pressed three times: the oldest line is shown, history_pos is 0 and the
\* last up arrow rang the bell
C26_Witness ==
  /\ pc = "reading"
  /\ Len(history_) = 2
  /\ nkeys = 3
  /\ history_pos = 0
  /\ line = history_[1]
  /\ emitted = <<BEL>>

----------------------------------------------------------------------------
(* Claims about the alphabet index *)

\* the values of a byte
Bytes == 0..255

\* there are 64 accepted characters, and the index of each is the number of
\* accepted characters below it: an index in [0, 64), no two the same
IndexOfAcceptedIsRank ==
  /\ Cardinality(VALID_COMM_CHARS) = 64
  /\ \A c \in VALID_COMM_CHARS :
       /\ index(c) \in 0..63
       /\ index(c) = Cardinality({d \in VALID_COMM_CHARS : d < c})

\* every byte that is not an accepted character has the sentinel
IndexOfOthersIsSentinel ==
  \A c \in Bytes \ VALID_COMM_CHARS : index(c) = INVALID_INDEX

\* C27: the alphabet index built by buildIndex maps each of the 64 accepted
\* characters (digits, letters, '-', '_') to a distinct index in [0, 64),
\* assigned in increasing order of the byte values (the index of a character
\* is the number of accepted characters below it), and maps every other
\* byte value to the sentinel 255; trie_node_size_ is 64.
C27_IndexIsDenseAndOrdered ==
  /\ IndexOfAcceptedIsRank
  /\ IndexOfOthersIsSentinel
  /\ trie_node_size_ = 64
  /\ \A n \in 1..Len(nodes) : DOMAIN nodes[n].children = 0..63

\* C27 witness: "a" and "b" have been inserted into the trie: '-' has the
\* index 0, 'a' and 'b' have 38 and 39, 'z' has 63, the space and a byte
\* beyond the table have 255, and the root has its children in the slots
\* of 'a' and 'b'
C27_Witness ==
  /\ trie_status = "ok"
  /\ vocab = {<<97>>, <<98>>}
  /\ index(45) = 0
  /\ index(97) = 38
  /\ index(98) = 39
  /\ index(122) = 63
  /\ index(SPACE) = INVALID_INDEX
  /\ index(200) = INVALID_INDEX
  /\ LiveSet(trie_root_) = {38, 39}

----------------------------------------------------------------------------
(* Claims about the loop of start *)

\* C28: the loop of start keeps reading lines until a completed line is
\* exactly "quit": when that line has been processed (its response printed
\* and "quit" recorded in history_) no further line is read, and no other
\* completed line (the empty line, "history", an unknown command) ends the
\* loop.
C28_OnlyQuitEndsTheLoop ==
  [][/\ KeyEnter /\ line = STR_quit =>
          /\ pc' = "done"
          /\ emitted' = CRLF \o commands_[STR_quit] \o CRLF
          /\ history_' # <<>>
          /\ history_'[Len(history_')] = STR_quit
     /\ KeyEnter /\ line # STR_quit =>
          /\ pc' = "reading"
          /\ line' = <<>>
          /\ SubSeq(emitted', Len(emitted') - Len(prompt_), Len(emitted'))
               = prompt_ \o <<SPACE>>
     /\ pc # "done"]_vars

\* C28 witness: the unknown command "q" was entered and the next line was
\* read; it was "quit" (the keys "q", tab, "t" and enter), which ended the
\* loop after its response
C28_Witness ==
  /\ pc = "done"
  /\ input = STR_quit
  /\ history_ = << <<113>>, STR_quit >>
  /\ emitted = CRLF \o commands_[STR_quit] \o CRLF
  /\ ret_val = 0

----------------------------------------------------------------------------
(* Claims about the vectors of key events *)

\* the events of keys that come before its first enter: all of them when
\* there is none
BeforeEnter(keys) ==
  LET enters == {i \in 1..Len(keys) : keys[i].key = "enter"}
  IN IF enters = {}
       THEN keys
       ELSE SubSeq(keys, 1, (CHOOSE i \in enters : \A j \in enters : i <= j) - 1)

\* the locals after each event of keys has been applied once, the first
\* event first
RECURSIVE AppliedInOrder(_, _)
AppliedInOrder(keys, s) ==
  IF keys = <<>> THEN s ELSE AppliedInOrder(Tail(keys), batchCase(s, Head(keys)))

\* C29: the key events of one batch are applied strictly in the order of
\* delivery, and every event delivered before the enter of a line is applied
\* exactly once; the events that follow an enter in the same batch are
\* discarded and are never applied to the next input line.
C29_BatchAppliedInOrderUpToEnter ==
  [][\A keys \in Batches :
       KeyBatch(keys) =>
         LET expected == AppliedInOrder(BeforeEnter(keys), Locals)
         IN IF BeforeEnter(keys) # keys
              THEN /\ input' = expected.line
                   /\ pc' = "reading"
                   /\ line' = <<>>
                   /\ cursor_pos' = 0
              ELSE /\ line' = expected.line
                   /\ cursor_pos' = expected.cursor_pos
                   /\ input' = input]_vars

\* C29 witness: the events 'a', 'b' and enter came in one batch and were
\* applied in that order: both characters were echoed before the line "ab"
\* was returned, and the next line is empty.  A fourth event was delivered,
\* behind the enter in that batch or as an empty line before it
C29_Witness ==
  /\ pc = "reading"
  /\ nkeys = 4
  /\ input = <<97, 98>>
  /\ history_ = << <<97, 98>> >>
  /\ line = <<>>
  /\ cursor_pos = 0
  /\ emitted = <<97, 98>> \o CRLF \o response(<<97, 98>>, <<>>) \o prompt_ \o <<SPACE>>

----------------------------------------------------------------------------
(* Claims about what the tab key makes of the line *)

\* the words of the vocabulary that start with str
WordsStartingWith(str) == {w \in vocab : IsPrefix(str, w)}

\* p is a prefix of every word of W
CommonPrefix(p, W) == \A w \in W : IsPrefix(p, w)

\* the longest common prefix of the words of W (W is not empty)
LongestCommonPrefix(W) ==
  CHOOSE p \in PrefixesOf(W) :
    /\ CommonPrefix(p, W)
    /\ \A p2 \in PrefixesOf(W) : CommonPrefix(p2, W) => Len(p2) <= Len(p)

\* C30: whenever a tab event changes line, the line before is a proper
\* prefix of the new line, and the new line is the longest common prefix of
\* all the words of the vocabulary that start with the line before; the tab
\* key never removes or alters a character already typed.
C30_TabExtendsToLongestCommonPrefix ==
  [][q'.called /\ KeyTab =>
       /\ IsPrefix(line, line')
       /\ line' # line =>
            /\ Len(line) < Len(line')
            /\ WordsStartingWith(line) # {}
            /\ line' = LongestCommonPrefix(WordsStartingWith(line))]_vars

\* C30 witness: the tab key has made "history" of the line "hi", the only
\* word that starts with it; the cursor is at the end of the new line
C30_Witness ==
  /\ pc = "reading"
  /\ q.called
  /\ q.str = <<104, 105>>
  /\ ~q.ret_pos
  /\ line = STR_history
  /\ cursor_pos = Len(STR_history)
  /\ emitted = <<BS, BS>> \o STR_history

----------------------------------------------------------------------------
(* Claims about what a key event leaves alone *)

\* C31: no key event inside getUserInputLine changes history_ or the
\* completion trie: editing a recalled history entry and then pressing up
\* or down, or pressing enter, leaves every existing entry of the history
\* as it was recorded (the only change is the line start appends after an
\* enter), and find leaves the trie unchanged.
C31_KeysLeaveHistoryAndTrieAlone ==
  [][nkeys' # nkeys =>
       /\ nodes' = nodes
       /\ trie_root_' = trie_root_
       /\ vocab' = vocab
       /\ IsPrefix(history_, history_')
       /\ history_' # history_ => KeyEnter /\ history_' = Append(history_, line)]_vars

\* C31 witness: "a" is in the history; it was recalled with the up arrow, a
\* character was added to it and the down arrow was pressed: the two
\* characters are wiped from the display, the empty draft is back, and the
\* entry is still "a"
C31_Witness ==
  /\ pc = "reading"
  /\ nkeys = 5
  /\ history_ = << <<97>> >>
  /\ history_pos = 1
  /\ line = <<>>
  /\ cursor_pos = 0
  /\ emitted = <<BS, BS, SPACE, SPACE, BS, BS>>

----------------------------------------------------------------------------
(* Claims about the indices of the children array *)

\* the child indices find uses on str: that of each character whose
\* predecessors led to a node
IndicesUsedByFind(str) ==
  {index_(str[i]) : i \in {j \in 1..Len(str) : PrefixPresent(SubSeq(str, 1, j - 1))}}

\* C32 as stated: for every line the user can type (bytes 32..126) followed
\* by a tab, and for every word passed to insert, each index used to access
\* the children array of a node in find and insert is in
\* [0, trie_node_size_); the sentinel 255 is never used as a child index.
C32_ChildIndexWithinTheArray ==
  /\ \A w \in vocab : \A i \in 1..Len(w) : index_(w[i]) \in 0..(trie_node_size_ - 1)
  /\ q.called =>
       \A idx \in IndicesUsedByFind(q.str) : idx \in 0..(trie_node_size_ - 1)

----------------------------------------------------------------------------
(* Claims about the counts of the cursor movements *)

\* n, or 0 for a negative n
AtLeastZero(n) == IF n > 0 THEN n ELSE 0

\* the lines replaceLine can be asked to show: an entry of the history, the
\* draft, or what a node of the trie holds (a completion)
ReplacementLines ==
  {history_[i] : i \in 1..Len(history_)}
    \cup {current_line}
    \cup {nodes[n].word_to_here : n \in 1..Len(nodes)}

\* C33: in unsigned arithmetic the backward-motion counts
\* line.size() - (cursor_pos - 1) of delete (also at cursor_pos = 0) and
\* line.size() - (cursor_pos - 2) of the backspace inside the line (also at
\* cursor_pos = 1), and the int difference old_line_size - new_line.size()
\* of replaceLine, are for every reachable line and cursor exactly the
\* number of columns the cursor has to move back: old length - cursor_pos,
\* old length - cursor_pos + 1 and max(0, old length - new length); never a
\* wrapped-around huge count or a negative one.
C33_BackwardCountsDoNotWrap ==
  /\ cursor_pos < Len(line) =>
       delCase(Locals).out
         = substr(line, cursor_pos + 1) \o <<SPACE>>
             \o Repeat(Len(line) - cursor_pos, BS)
  /\ 0 < cursor_pos /\ cursor_pos < Len(line) =>
       backspaceCase(Locals).out
         = <<BS>> \o substr(line, cursor_pos) \o <<SPACE>>
             \o Repeat(Len(line) - cursor_pos + 1, BS)
  /\ \A new_line \in ReplacementLines :
       replaceLine(Len(line), new_line, cursor_pos)
         = Repeat(cursor_pos, BS) \o new_line
             \o Repeat(AtLeastZero(Len(line) - Len(new_line)), SPACE)
             \o Repeat(AtLeastZero(Len(line) - Len(new_line)), BS)

\* C33 witness: delete was pressed with the cursor at position 0 of a line of
\* two characters: the character left is printed, then a blank, and the
\* cursor is moved back over both, two columns
C33_Witness ==
  /\ pc = "reading"
  /\ line = <<97>>
  /\ cursor_pos = 0
  /\ emitted = <<97, SPACE, BS, BS>>

====
